---- MODULE Spec2Model ----
(***************************************************************************)
(* A model of konwerter.py: the batch converter of the images found in     *)
(* the folder "do przerobienia" into WebP files in the folder              *)
(* "przerobione".                                                          *)
(*                                                                         *)
(* The state is the file system the script works on (the two folders and   *)
(* their entries), the facts of the installation (is Pillow importable, is *)
(* pillow_heif importable, does Pillow's save remove a file it created     *)
(* when the encoder fails), the script's own variables and the console.    *)
(* main() is cut into its statements, so that a second specification can   *)
(* let another process change the folders between two of them.             *)
(*                                                                         *)
(* File names are sequences of one-character strings, so that              *)
(* Path.suffix, Path.stem and str.lower are computed, not assumed.         *)
(* Sizes are byte counts: get_file_size_mb divides by 2^20, which is exact *)
(* in binary floating point, so sums and comparisons of the MB values are  *)
(* those of the byte counts (below 2^53 bytes).                            *)
(***************************************************************************)
EXTENDS Integers, Sequences, FiniteSets, TLC

\* Bounds of the model.
MaxFiles == 2      \* entries of the input folder
MaxRuns == 2       \* runs of the script on the same folders
MaxEnvSteps == 1   \* changes another process makes during the runs (SpecEnv)

\* konwerter.py:45, quality: int = 85
DefaultQuality == 85

---------------------------------------------------------------------------
\* Strings

\* str.lower(), on the characters file names are made of here.
LowerChar(c) ==
  CASE c = "J" -> "j" [] c = "P" -> "p" [] c = "G" -> "g" [] c = "N" -> "n"
    [] c = "H" -> "h" [] c = "E" -> "e" [] c = "I" -> "i" [] c = "C" -> "c"
    [] c = "F" -> "f" [] c = "T" -> "t" [] c = "B" -> "b" [] c = "M" -> "m"
    [] OTHER -> c

lower(s) == [k \in 1..Len(s) |-> LowerChar(s[k])]

\* str.rfind('.'), 1-based; 0 when there is no dot.
rfind_dot(name) ==
  LET dots == {k \in 1..Len(name) : name[k] = "."}
  IN IF dots = {} THEN 0 ELSE CHOOSE k \in dots : \A j \in dots : j <= k

\* pathlib's PurePath.suffix: the last dot and what follows it, unless the
\* dot is the first or the last character of the name.
suffix(name) ==
  LET d == rfind_dot(name)
  IN IF 1 < d /\ d < Len(name) THEN SubSeq(name, d, Len(name)) ELSE << >>

\* pathlib's PurePath.stem: the name without its suffix.
stem(name) ==
  LET d == rfind_dot(name)
  IN IF 1 < d /\ d < Len(name) THEN SubSeq(name, 1, d - 1) ELSE name

SUPPORTED_FORMATS ==
  { <<".", "j", "p", "g">>, <<".", "j", "p", "e", "g">>, <<".", "p", "n", "g">>,
    <<".", "b", "m", "p">>, <<".", "g", "i", "f">>, <<".", "t", "i", "f", "f">>,
    <<".", "t", "i", "f">> }

HEIC_FORMATS == { <<".", "h", "e", "i", "c">>, <<".", "h", "e", "i", "f">> }

\* all_formats of main()
all_formats(heic) ==
  IF heic THEN SUPPORTED_FORMATS \cup HEIC_FORMATS ELSE SUPPORTED_FORMATS

\* OUTPUT_FOLDER / f"{input_file.stem}.webp", as a name in the output folder
output_name(name) == stem(name) \o <<".", "w", "e", "b", "p">>

---------------------------------------------------------------------------
\* Files

\* What a path holds when nothing is there.
Absent == [kind |-> "absent"]

\* An entry of the input folder: a directory, or a regular file of `size`
\* bytes.  `decode` says whether Pillow can open and load it, `mode` and
\* `transparency` are img.mode and ('transparency' in img.info) of the opened
\* image, `encodable` says whether the WebP encoder accepts it (it refuses an
\* image wider or higher than 16383 pixels), `id` stands for the pixels and
\* `outsize` for the size of the WebP file the encoder makes of them.
File(name, size, decode, mode, transparency, encodable, id, outsize) ==
  [name |-> name, kind |-> "file", size |-> size, decode |-> decode,
   mode |-> mode, transparency |-> transparency, encodable |-> encodable,
   id |-> id, outsize |-> outsize]

Dir(name, id) ==
  [name |-> name, kind |-> "dir", size |-> 0, decode |-> "bad",
   mode |-> "RGB", transparency |-> FALSE, encodable |-> FALSE,
   id |-> id, outsize |-> 0]

\* The entries the input folder is filled from.
Catalogue ==
  { File(<<"a", ".", "j", "p", "g">>,      4, "ok",  "RGB",  FALSE, TRUE,  1, 2),
    File(<<"a", ".", "P", "N", "G">>,      3, "ok",  "RGBA", FALSE, TRUE,  2, 4),
    File(<<"b", ".", "g", "i", "f">>,      2, "ok",  "P",    TRUE,  TRUE,  3, 1),
    File(<<"b", ".", "t", "i", "f">>,      5, "ok",  "PA",   FALSE, TRUE,  4, 2),
    File(<<"c", ".", "b", "m", "p">>,      2, "bad", "RGB",  FALSE, TRUE,  5, 0),
    File(<<"d", ".", "j", "p", "e", "g">>, 0, "bad", "RGB",  FALSE, TRUE,  6, 0),
    File(<<"e", ".", "t", "i", "f", "f">>, 6, "ok",  "CMYK", FALSE, FALSE, 7, 0),
    File(<<"g", ".", "p", "n", "g">>,      1, "ok",  "L",    TRUE,  TRUE,  8, 1),
    File(<<"f", ".", "H", "e", "i", "C">>, 3, "ok",  "RGB",  FALSE, TRUE,  9, 1),
    Dir(<<"h", ".", "h", "e", "i", "f">>, 10),
    Dir(<<"k", ".", "p", "n", "g">>, 11),
    File(<<".", "j", "p", "g">>,           1, "ok",  "RGB",  FALSE, TRUE, 12, 1),
    File(<<"m", ".", "p", "n", "g">>,      2, "ok",  "LA",   FALSE, TRUE, 13, 1) }

\* What another process may write over an input file during a run.
Rewritten(name) == File(name, 3, "ok", "RGB", FALSE, TRUE, 20, 1)

\* A WebP file left in the output folder by something before the first run.
StaleName == <<"e", ".", "w", "e", "b", "p">>
StaleFile == [kind |-> "webp", data |-> 30, size |-> 2, alpha |-> FALSE,
              quality |-> 50, lossless |-> FALSE]

\* The output file an interrupted save leaves: opened for writing, so empty.
Truncated == [kind |-> "truncated", size |-> 0]

Lookup(dir, n) == IF n \in DOMAIN dir THEN dir[n] ELSE Absent
Put(dir, n, v) == [x \in DOMAIN dir \cup {n} |-> IF x = n THEN v ELSE dir[x]]
Remove(dir, n) == [x \in DOMAIN dir \ {n} |-> dir[x]]
EmptyDir == [x \in {} |-> Absent]

\* Path.is_file()
is_file(dir, n) == n \in DOMAIN dir /\ dir[n].kind = "file"

\* Path.stat().st_size / (1024 * 1024): the byte count (see the header), or
\* FileNotFoundError when nothing is at the path.
get_file_size_mb(dir, n) ==
  IF n \in DOMAIN dir THEN [raised |-> FALSE, size |-> dir[n].size]
  ELSE [raised |-> TRUE, size |-> 0]

---------------------------------------------------------------------------
\* Pillow

\* The modes whose bands include alpha.
AlphaModes == {"RGBA", "LA", "PA", "RGBa", "La"}

\* Image.convert('RGB')
convert_RGB(img) == [img EXCEPT !.mode = "RGB"]

\* The WebP plugin's encoder: an image that is not RGB, RGBX or RGBA is made
\* RGBA when its mode has an alpha band or it is a palette image with
\* transparency, and RGB otherwise; the file keeps alpha exactly when the
\* encoded image is RGBA.
WebPEncode(img, quality, lossless) ==
  LET alpha == img.mode \in AlphaModes \/ (img.mode = "P" /\ img.transparency)
      encoded == IF img.mode \in {"RGB", "RGBX", "RGBA"} THEN img.mode
                 ELSE IF alpha THEN "RGBA" ELSE "RGB"
  IN [kind |-> "webp", data |-> img.id, size |-> img.outsize,
      alpha |-> (encoded = "RGBA"), quality |-> quality, lossless |-> lossless]

\* img.save(output_path, 'WEBP', ...): what is at the output path afterwards.
\* The pixels are loaded before the output file is opened, and the file is
\* opened (and so emptied) before the encoder runs.  When the encoder
\* refuses the image, a Pillow that cleans up removes the file if this call
\* created it; a file that was there before stays, emptied.
save(img, before, quality, lossless, cleanup) ==
  IF img.encodable
  THEN [raised |-> FALSE, out |-> WebPEncode(img, quality, lossless)]
  ELSE [raised |-> TRUE,
        out |-> IF before = Absent /\ cleanup THEN Absent ELSE Truncated]

---------------------------------------------------------------------------
\* konwerter.py

\* The test of line 57.
keeps_alpha(img) ==
  img.mode \in {"RGBA", "LA"} \/ (img.mode = "P" /\ img.transparency)

\* Lines 55-65, the body of the try statement: `entry` is what is at
\* input_path, `before` what is at output_path.  raised: an exception left
\* the body; out: what is at output_path afterwards; saved: the mode of the
\* image handed to save ("none" when Image.open or the load raised).
convert_body(entry, before, quality, cleanup) ==
  IF entry.kind # "file" \/ entry.decode # "ok"
  THEN [raised |-> TRUE, out |-> before, saved |-> "none"]
  ELSE LET img == IF keeps_alpha(entry) THEN entry
                  ELSE IF entry.mode # "RGB" THEN convert_RGB(entry) ELSE entry
           s == save(img, before, quality, FALSE, cleanup)
       IN [raised |-> s.raised, out |-> s.out, saved |-> img.mode]

\* Variant: convert_to_webp without its except clause.
convert_to_webp_uncaught(entry, before, quality, cleanup) ==
  LET b == convert_body(entry, before, quality, cleanup)
  IN [raised |-> b.raised, ret |-> ~b.raised, out |-> b.out, saved |-> b.saved]

\* convert_to_webp(input_path, output_path, quality): True when the body
\* ends, False (after printing the error) when `except Exception` catches.
convert_to_webp(entry, before, quality, cleanup) ==
  LET b == convert_body(entry, before, quality, cleanup)
  IN [raised |-> FALSE, ret |-> ~b.raised, out |-> b.out, saved |-> b.saved]

\* Variant: mkdir() without exist_ok=True, which raises FileExistsError
\* for a folder that is there.
create_folders_exclusive(fs) ==
  [raised |-> fs \cap {"in", "out"} # {}, folders |-> fs \cup {"in", "out"}]

\* create_folders(): mkdir(exist_ok=True) of both folders.  Each folder's
\* path is free or holds a directory, and the script's own directory is
\* writable; the mkdir errors of other file systems are not modelled.
create_folders(fs) == [raised |-> FALSE, folders |-> fs \cup {"in", "out"}]

\* Variant: "=" written for "+=".
accumulate_assign(total, size) == size

\* total_input_size += input_size (line 122) and total_output_size +=
\* output_size (line 126)
accumulate(total, size) == total + size

\* The per-file reduction of line 127, as the fraction num/den of a percent
\* value; an unguarded division by zero raises ZeroDivisionError.
Divide(num, den) ==
  IF den = 0 THEN [raised |-> TRUE, num |-> 0, den |-> 1]
  ELSE [raised |-> FALSE, num |-> num, den |-> den]

\* Variant: the reduction without its "if input_size > 0" guard.
reduction_unguarded(input_size, output_size) ==
  Divide((input_size - output_size) * 100, input_size)

reduction(input_size, output_size) ==
  IF input_size > 0 THEN Divide((input_size - output_size) * 100, input_size)
  ELSE [raised |-> FALSE, num |-> 0, den |-> 1]

\* The aggregate percentage of lines 141-143: printed only when the total
\* input size is positive.
total_reduction(total_in, total_out) ==
  IF total_in > 0
  THEN [printed |-> TRUE] @@ Divide((total_in - total_out) * 100, total_in)
  ELSE [printed |-> FALSE, raised |-> FALSE, num |-> 0, den |-> 1]

---------------------------------------------------------------------------
\* State

VARIABLES
  pilInstalled,      \* "from PIL import Image" succeeds
  heifInstalled,     \* "import pillow_heif" succeeds
  pillowCleanup,     \* this Pillow removes a file it created when save fails
  folders,           \* which of the folders "in", "out" exist
  inputDir,          \* the entries of INPUT_FOLDER, by name
  dirOrder,          \* the order in which iterdir() lists INPUT_FOLDER
  outputDir,         \* the files of OUTPUT_FOLDER, by name
  pc,                \* the statement the script is at
  run,               \* the number of the run
  HEIC_SUPPORTED,
  image_files, i, input_size,
  success_count, total_input_size, total_output_size,
  console,           \* what was printed in this run
  results,           \* per file of this run: what the loop did with it
  firstOutput,       \* OUTPUT_FOLDER as the first run left it
  fsBefore,          \* the folders as they were when create_folders was called
  envSteps           \* changes made by another process so far

fsVars == <<folders, inputDir, dirOrder, outputDir>>
factVars == <<pilInstalled, heifInstalled, pillowCleanup>>
loopVars == <<image_files, i, input_size, success_count, total_input_size,
              total_output_size>>
vars == <<pilInstalled, heifInstalled, pillowCleanup, folders, inputDir,
          dirOrder, outputDir, pc, run, HEIC_SUPPORTED, image_files, i,
          input_size, success_count, total_input_size, total_output_size,
          console, results, firstOutput, fsBefore, envSteps>>

\* The input folders of at most MaxFiles entries with different names.
InputDirs ==
  { [n \in {e.name : e \in S} |-> CHOOSE e \in S : e.name = n] :
      S \in { T \in SUBSET Catalogue :
                /\ Cardinality(T) <= MaxFiles
                /\ \A e1, e2 \in T : e1.name = e2.name => e1 = e2 } }

\* The orders a folder's names can be listed in.
Orders(names) ==
  { s \in [1..Cardinality(names) -> names] :
      \A j, k \in 1..Cardinality(names) : s[j] = s[k] => j = k }

\* fsBefore while create_folders has not been called in this run.
NotCalled == [folders |-> {}, input |-> EmptyDir, output |-> EmptyDir]

\* INPUT_FOLDER.iterdir(): the order is any, but the file system's, so the
\* same for every listing of an unchanged folder.
iterdir == dirOrder

Init ==
  /\ pilInstalled \in BOOLEAN
  /\ heifInstalled \in BOOLEAN
  /\ inputDir \in InputDirs
  \* Pillow's clean-up shows only when an encoder refuses an image.
  /\ pillowCleanup \in
       IF \E n \in DOMAIN inputDir : ~inputDir[n].encodable /\ inputDir[n].kind = "file"
       THEN BOOLEAN ELSE {TRUE}
  /\ dirOrder \in Orders(DOMAIN inputDir)
  /\ folders \in { f \in SUBSET {"in", "out"} :
                     DOMAIN inputDir # {} => "in" \in f }
  /\ outputDir \in IF "out" \in folders
                   THEN {EmptyDir, Put(EmptyDir, StaleName, StaleFile)}
                   ELSE {EmptyDir}
  /\ pc = "import_pil"
  /\ run = 1
  /\ HEIC_SUPPORTED = FALSE
  /\ image_files = << >>
  /\ i = 0
  /\ input_size = 0
  /\ success_count = 0
  /\ total_input_size = 0
  /\ total_output_size = 0
  /\ console = << >>
  /\ results = << >>
  /\ firstOutput = EmptyDir
  /\ fsBefore = NotCalled
  /\ envSteps = 0

---------------------------------------------------------------------------
\* The statements of the script

\* Lines 11-16: without Pillow the script prints how to install it and
\* exits with status 1.
ImportPIL ==
  /\ pc = "import_pil"
  /\ IF pilInstalled
     THEN pc' = "import_heif" /\ console' = console
     ELSE pc' = "exit1" /\ console' = Append(console, [t |-> "pillow_missing"])
  /\ UNCHANGED <<factVars, fsVars, run, HEIC_SUPPORTED, loopVars, results,
                 firstOutput, fsBefore, envSteps>>

\* Lines 19-25
ImportHeif ==
  /\ pc = "import_heif"
  /\ HEIC_SUPPORTED' = heifInstalled
  /\ pc' = "create_folders"
  /\ UNCHANGED <<factVars, fsVars, run, loopVars, console, results,
                 firstOutput, fsBefore, envSteps>>

\* Lines 78-83
CreateFolders ==
  /\ pc = "create_folders"
  /\ LET r == create_folders(folders)
     IN /\ fsBefore' = [folders |-> folders, input |-> inputDir,
                       output |-> outputDir]
        /\ IF r.raised
           THEN pc' = "crashed" /\ UNCHANGED <<folders, console>>
           ELSE /\ folders' = r.folders
                /\ console' = Append(console, [t |-> "folders"])
                /\ pc' = "discover"
  /\ UNCHANGED <<factVars, inputDir, dirOrder, outputDir, run, HEIC_SUPPORTED,
                 loopVars, results, firstOutput, envSteps>>

\* Variant: the extension compared as it is written, without lower().
discover_case_sensitive(heic) ==
  LET Wanted(n) == is_file(inputDir, n) /\ suffix(n) \in all_formats(heic)
  IN SelectSeq(iterdir, Wanted)

\* The list comprehension of lines 90-93
discover(heic) ==
  LET Wanted(n) == is_file(inputDir, n) /\ lower(suffix(n)) \in all_formats(heic)
  IN SelectSeq(iterdir, Wanted)

\* Variant: the HEIC entries counted without the is_file() test.
heic_files_any_entry ==
  LET Heic(n) == lower(suffix(n)) \in HEIC_FORMATS
  IN SelectSeq(iterdir, Heic)

\* The list comprehension of lines 96-99
heic_files ==
  LET Heic(n) == is_file(inputDir, n) /\ lower(suffix(n)) \in HEIC_FORMATS
  IN SelectSeq(iterdir, Heic)

\* Lines 86-93
Discover ==
  /\ pc = "discover"
  /\ image_files' = discover(HEIC_SUPPORTED)
  /\ pc' = "heic_check"
  /\ UNCHANGED <<factVars, fsVars, run, HEIC_SUPPORTED, i, input_size,
                 success_count, total_input_size, total_output_size, console,
                 results, firstOutput, fsBefore, envSteps>>

\* Lines 95-102
HeicCheck ==
  /\ pc = "heic_check"
  /\ console' = IF heic_files # << >> /\ ~HEIC_SUPPORTED
                THEN Append(console, [t |-> "heic_warning", n |-> Len(heic_files)])
                ELSE console
  /\ pc' = "empty_check"
  /\ UNCHANGED <<factVars, fsVars, run, HEIC_SUPPORTED, loopVars, results,
                 firstOutput, fsBefore, envSteps>>

\* Lines 104-114: the early return, or the start of the loop
EmptyCheck ==
  /\ pc = "empty_check"
  /\ IF image_files = << >>
     THEN /\ console' = Append(console, [t |-> "no_images"])
          /\ pc' = "done"
          /\ UNCHANGED <<i, success_count, total_input_size, total_output_size>>
     ELSE /\ console' = Append(console, [t |-> "found", n |-> Len(image_files)])
          /\ i' = 1
          /\ success_count' = 0
          /\ total_input_size' = 0
          /\ total_output_size' = 0
          /\ pc' = "stat_input"
  /\ UNCHANGED <<factVars, fsVars, run, HEIC_SUPPORTED, image_files, input_size,
                 results, firstOutput, fsBefore, envSteps>>

\* Where the loop goes after the file at index k.
after_file(k) == IF k < Len(image_files) THEN "stat_input" ELSE "summary"

\* Lines 116-122
StatInput ==
  /\ pc = "stat_input"
  /\ LET r == get_file_size_mb(inputDir, image_files[i])
     IN IF r.raised
        THEN /\ pc' = "crashed"
             /\ UNCHANGED <<input_size, total_input_size>>
        ELSE /\ input_size' = r.size
             /\ total_input_size' = accumulate(total_input_size, r.size)
             /\ pc' = "convert"
  /\ UNCHANGED <<factVars, fsVars, run, HEIC_SUPPORTED, image_files, i,
                 success_count, total_output_size, console, results,
                 firstOutput, fsBefore, envSteps>>

\* Line 124, with lines 130-131 when the conversion failed
Convert ==
  /\ pc = "convert"
  /\ LET name == image_files[i]
         out == output_name(name)
         before == Lookup(outputDir, out)
         r == convert_to_webp(Lookup(inputDir, name), before, DefaultQuality,
                              pillowCleanup)
         rec == [name |-> name, ok |-> r.ret, insize |-> input_size,
                 outsize |-> 0, before |-> before, after |-> r.out,
                 saved |-> r.saved]
     IN /\ outputDir' = IF r.out = Absent THEN Remove(outputDir, out)
                        ELSE Put(outputDir, out, r.out)
        /\ results' = Append(results, rec)
        /\ IF r.raised
           THEN pc' = "crashed" /\ UNCHANGED <<i, console>>
           ELSE IF r.ret
           THEN pc' = "stat_output" /\ UNCHANGED <<i, console>>
           ELSE /\ console' = Append(console, [t |-> "error", name |-> name])
                /\ i' = i + 1
                /\ pc' = after_file(i)
  /\ UNCHANGED <<factVars, folders, inputDir, dirOrder, run, HEIC_SUPPORTED,
                 image_files, input_size, success_count, total_input_size,
                 total_output_size, firstOutput, fsBefore, envSteps>>

\* Lines 125-129
ReportSuccess ==
  /\ pc = "stat_output"
  /\ LET name == image_files[i]
         r == get_file_size_mb(outputDir, output_name(name))
         red == reduction(input_size, r.size)
     IN IF r.raised \/ red.raised
        THEN /\ pc' = "crashed"
             /\ console' = Append(console,
                  [t |-> IF r.raised THEN "FileNotFoundError"
                         ELSE "ZeroDivisionError"])
             /\ UNCHANGED <<i, success_count, total_output_size, results>>
        ELSE /\ total_output_size' = accumulate(total_output_size, r.size)
             /\ console' = Append(console,
                  [t |-> "converted", name |-> name, insize |-> input_size,
                   outsize |-> r.size, num |-> red.num, den |-> red.den])
             /\ results' = [results EXCEPT ![Len(results)].outsize = r.size]
             /\ success_count' = success_count + 1
             /\ i' = i + 1
             /\ pc' = after_file(i)
  /\ UNCHANGED <<factVars, fsVars, run, HEIC_SUPPORTED, image_files,
                 input_size, total_input_size, firstOutput, fsBefore,
                 envSteps>>

\* Lines 133-145
Summary ==
  /\ pc = "summary"
  /\ LET tr == total_reduction(total_input_size, total_output_size)
     IN IF tr.raised
        THEN /\ pc' = "crashed"
             /\ console' = Append(console, [t |-> "ZeroDivisionError"])
        ELSE /\ pc' = "done"
             /\ console' = Append(console,
                  [t |-> "summary", success |-> success_count,
                   total |-> Len(image_files), insize |-> total_input_size,
                   outsize |-> total_output_size, percent |-> tr.printed,
                   num |-> tr.num, den |-> tr.den])
  /\ UNCHANGED <<factVars, fsVars, run, HEIC_SUPPORTED, loopVars, results,
                 firstOutput, fsBefore, envSteps>>

\* The script is started again on the folders as they are.
Rerun ==
  /\ pc = "done"
  /\ run < MaxRuns
  /\ run' = run + 1
  /\ firstOutput' = IF run = 1 THEN outputDir ELSE firstOutput
  /\ pc' = "import_pil"
  /\ HEIC_SUPPORTED' = FALSE
  /\ image_files' = << >>
  /\ i' = 0
  /\ input_size' = 0
  /\ success_count' = 0
  /\ total_input_size' = 0
  /\ total_output_size' = 0
  /\ console' = << >>
  /\ results' = << >>
  /\ fsBefore' = NotCalled
  /\ UNCHANGED <<factVars, fsVars, envSteps>>

Step ==
  \/ ImportPIL \/ ImportHeif \/ CreateFolders \/ Discover \/ HeicCheck
  \/ EmptyCheck \/ StatInput \/ Convert \/ ReportSuccess \/ Summary

Next == Step \/ Rerun

\* The runs of the script on folders nothing else touches.
Spec == Init /\ [][Next]_vars

---------------------------------------------------------------------------
\* Another process working in the folders while the loop of main() runs.
\* Only the files the loop has still to touch matter to the script.

InLoop == pc \in {"stat_input", "convert", "stat_output"}

Pending == { image_files[k] : k \in i..Len(image_files) }

EnvRemoveInput ==
  /\ InLoop
  /\ envSteps < MaxEnvSteps
  /\ \E n \in Pending \cap DOMAIN inputDir :
       LET Other(m) == m # n
       IN /\ inputDir' = Remove(inputDir, n)
          /\ dirOrder' = SelectSeq(dirOrder, Other)
  /\ envSteps' = envSteps + 1
  /\ UNCHANGED <<factVars, folders, outputDir, pc, run, HEIC_SUPPORTED,
                 loopVars, console, results, firstOutput, fsBefore>>

EnvRewriteInput ==
  /\ InLoop
  /\ envSteps < MaxEnvSteps
  /\ \E n \in Pending \cap DOMAIN inputDir :
       /\ inputDir[n] # Rewritten(n)
       /\ inputDir' = Put(inputDir, n, Rewritten(n))
  /\ envSteps' = envSteps + 1
  /\ UNCHANGED <<factVars, folders, dirOrder, outputDir, pc, run,
                 HEIC_SUPPORTED, loopVars, console, results, firstOutput,
                 fsBefore>>

EnvRemoveOutput ==
  /\ InLoop
  /\ envSteps < MaxEnvSteps
  /\ \E n \in {output_name(m) : m \in Pending} \cap DOMAIN outputDir :
       outputDir' = Remove(outputDir, n)
  /\ envSteps' = envSteps + 1
  /\ UNCHANGED <<factVars, folders, inputDir, dirOrder, pc, run,
                 HEIC_SUPPORTED, loopVars, console, results, firstOutput,
                 fsBefore>>

Env == EnvRemoveInput \/ EnvRewriteInput \/ EnvRemoveOutput

NextEnv == Step \/ Env

\* One run of the script while another process changes the folders.
SpecEnv == Init /\ [][NextEnv]_vars

---------------------------------------------------------------------------
\* Properties

\* The names the loop has handed to convert_to_webp in this run, in order.
Attempted == [k \in 1..Len(results) |-> results[k].name]

Kinds(t) == {k \in 1..Len(console) : console[k].t = t}

\* The run is over and went through the loop.
LoopDone == pc = "done" /\ image_files # << >>

\* C1: a conversion that fails does not abort the batch.  convert_to_webp
\* returns False instead of raising, the failure is printed, the loop hands
\* each discovered file to convert_to_webp once, in discovery order, no
\* statement is ever stuck or crashed, and a run that entered the loop ends
\* with the summary as its last output.
C1_FailureDoesNotAbort ==
  /\ pc # "crashed"
  /\ pc \notin {"done", "exit1"} => ENABLED Step
  /\ Len(results) <= Len(image_files)
  /\ \A k \in 1..Len(results) : Attempted[k] = image_files[k]
  /\ \A j, k \in 1..Len(image_files) : image_files[j] = image_files[k] => j = k
  /\ \A k \in 1..Len(results) :
       ~results[k].ok =>
         \E m \in Kinds("error") : console[m].name = results[k].name
  /\ pc = "summary" \/ LoopDone => Attempted = image_files
  /\ LoopDone => console[Len(console)].t = "summary"

\* C1's case: a run that ended with its summary after a failed file was
\* followed by a converted one.
C1_Witness ==
  /\ LoopDone
  /\ \E j, k \in 1..Len(results) : j < k /\ ~results[j].ok /\ results[k].ok

\* Case-insensitive equality of two strings, letter by letter.
CasePairs ==
  { <<"j", "J">>, <<"p", "P">>, <<"g", "G">>, <<"n", "N">>, <<"h", "H">>,
    <<"e", "E">>, <<"i", "I">>, <<"c", "C">>, <<"f", "F">>, <<"t", "T">>,
    <<"b", "B">>, <<"m", "M">> }

SameIgnoringCase(s, t) ==
  /\ Len(s) = Len(t)
  /\ \A k \in 1..Len(s) :
       s[k] = t[k] \/ <<s[k], t[k]>> \in CasePairs \/ <<t[k], s[k]>> \in CasePairs

\* The name is a non-empty base followed by one of the extensions `exts`,
\* in any case.
HasExtension(n, exts) ==
  \E e \in exts :
    /\ Len(n) > Len(e)
    /\ SameIgnoringCase(SubSeq(n, Len(n) - Len(e) + 1, Len(n)), e)

BaselineExtensions ==
  { <<".", "j", "p", "g">>, <<".", "j", "p", "e", "g">>, <<".", "p", "n", "g">>,
    <<".", "b", "m", "p">>, <<".", "g", "i", "f">>, <<".", "t", "i", "f", "f">>,
    <<".", "t", "i", "f">> }

HeicExtensions == { <<".", "h", "e", "i", "c">>, <<".", "h", "e", "i", "f">> }

RegularFiles(exts) ==
  { n \in DOMAIN inputDir : inputDir[n].kind = "file" /\ HasExtension(n, exts) }

Discovered == pc \notin {"import_pil", "import_heif", "create_folders",
                         "discover", "exit1"}

\* C4: discovery selects exactly the regular files of the input folder whose
\* extension is, in any case, one of the baseline extensions, or one of the
\* HEIC extensions when and only when pillow_heif was imported; nothing else
\* reaches convert_to_webp.
C4_DiscoveryExact ==
  LET exts == IF heifInstalled THEN BaselineExtensions \cup HeicExtensions
              ELSE BaselineExtensions
  IN /\ Discovered =>
          {image_files[k] : k \in 1..Len(image_files)} = RegularFiles(exts)
     /\ \A k \in 1..Len(results) : results[k].name \in RegularFiles(exts)

\* C4's case: a finished run that converted a file with an upper-case
\* extension beside an entry that discovery has to leave out.
C4_Witness ==
  /\ pc = "done"
  /\ \E k \in 1..Len(results) : suffix(results[k].name) # lower(suffix(results[k].name))
  /\ \E n \in DOMAIN inputDir : n \notin {image_files[k] : k \in 1..Len(image_files)}

\* Has the run passed the HEIC check?
HeicChecked == pc \notin {"import_pil", "import_heif", "create_folders",
                          "discover", "heic_check", "exit1"}

\* C5: without pillow_heif, n >= 1 regular .heic/.heif files make the run
\* print one warning that states n; none of them reaches convert_to_webp, no
\* file of the output folder holds their pixels, and the run neither crashes
\* nor gets stuck.
C5_HeicSoftSkip ==
  LET heic == RegularFiles(HeicExtensions)
  IN (pilInstalled /\ ~heifInstalled /\ heic # {}) =>
       /\ HeicChecked =>
            /\ Cardinality(Kinds("heic_warning")) = 1
            /\ \A k \in Kinds("heic_warning") : console[k].n = Cardinality(heic)
       /\ \A k \in 1..Len(results) : results[k].name \notin heic
       /\ \A n \in heic : \A f \in DOMAIN outputDir :
            outputDir[f].kind = "webp" => outputDir[f].data # inputDir[n].id
       /\ pc \notin {"crashed", "exit1"}
       /\ pc # "done" => ENABLED Step

\* C5's case: a finished run without pillow_heif whose input folder held
\* nothing to convert but a HEIC file.
C5_Witness ==
  /\ pc = "done"
  /\ ~heifInstalled
  /\ RegularFiles(HeicExtensions) # {}
  /\ image_files = << >>
  /\ Kinds("heic_warning") # {}

\* The conversions of this run that returned True.
Succeeded == {k \in 1..Len(results) : results[k].ok}

\* C2: after a run, the number of .webp files the run wrote equals the
\* number of inputs it converted successfully, and each of them is at
\* <input base name>.webp.
C2_OneOutputPerSuccess ==
  LoopDone =>
    /\ \A k \in Succeeded : output_name(results[k].name) \in DOMAIN outputDir
    /\ Cardinality({output_name(results[k].name) : k \in Succeeded})
         = Cardinality(Succeeded)

\* C3: the script ends abnormally only when Pillow cannot be imported.
C3_OnlyImportFailureIsFatal ==
  pc \in {"exit1", "crashed"} => ~pilInstalled

\* C6: a conversion that returned False has left the output path as it was.
C6_FailureLeavesOutputUntouched ==
  \A k \in 1..Len(results) :
    ~results[k].ok => results[k].after = results[k].before

\* The image has an alpha channel: a band of alpha values, or a palette with
\* transparency.
HasAlphaChannel(img) ==
  img.mode \in AlphaModes \/ (img.mode = "P" /\ img.transparency)

\* C7: an image in mode RGBA or LA, or in mode P with transparency, is saved
\* as it is, every other image is saved in mode RGB, always at the given
\* quality and lossy; so the WebP file of an image with an alpha channel has
\* alpha and the WebP file of an image without one has none.
C7_ModePolicy ==
  \A k \in Succeeded :
    LET img == inputDir[results[k].name]
        webp == results[k].after
    IN /\ results[k].saved = IF keeps_alpha(img) THEN img.mode ELSE "RGB"
       /\ webp.quality = DefaultQuality
       /\ ~webp.lossless
       /\ webp.alpha = HasAlphaChannel(img)

RECURSIVE SumOver(_, _)
SumOver(f, n) == IF n = 0 THEN 0 ELSE f[n] + SumOver(f, n - 1)

\* The totals the summary has to show.
SummaryIsRight(s) ==
  LET insizes == [k \in 1..Len(image_files) |-> inputDir[image_files[k]].size]
      outsizes == [k \in 1..Len(results) |->
                     IF results[k].ok THEN results[k].after.size ELSE 0]
  IN /\ s.t = "summary"
     /\ s.success = Cardinality(Succeeded)
     /\ s.total = Len(image_files)
     /\ s.insize = SumOver(insizes, Len(image_files))
     /\ s.outsize = SumOver(outsizes, Len(results))

CountsInRange ==
  /\ 0 <= success_count
  /\ success_count <= Len(results)
  /\ Len(results) <= Len(image_files)

\* C8 as stated: every run that ends normally, the one that discovered no
\* file included, ends with a summary showing the right totals.
C8_SummaryAlways ==
  /\ CountsInRange
  /\ pc = "done" => SummaryIsRight(console[Len(console)])

\* C8, amended: a run that discovered at least one file ends with a summary
\* showing the number of successful conversions, the number of discovered
\* files, the sum of the input sizes of all of them and the sum of the output
\* sizes of the successful ones, and 0 <= success_count <= total throughout;
\* a run that discovered no file prints that there is nothing to convert and
\* no summary.
C8_SummaryUnlessEmpty ==
  /\ CountsInRange
  /\ pc = "done" =>
       IF image_files = << >>
       THEN Kinds("summary") = {} /\ console[Len(console)].t = "no_images"
       ELSE SummaryIsRight(console[Len(console)])

\* C8's case: a summary over two files, one converted and one failed.
C8_Witness ==
  /\ LoopDone
  /\ Len(image_files) = 2
  /\ Cardinality(Succeeded) = 1
  /\ console[Len(console)].t = "summary"

\* C9: no division by zero.  A converted file whose measured input size is 0
\* is reported with a reduction of 0, the summary prints its percentage
\* exactly when the total input size is positive, and no ZeroDivisionError
\* is ever raised.
C9_NoDivisionByZero ==
  /\ Kinds("ZeroDivisionError") = {}
  /\ \A k \in Kinds("converted") :
       /\ console[k].den # 0
       /\ console[k].insize = 0 => console[k].num = 0
  /\ \A k \in Kinds("summary") :
       /\ console[k].den # 0
       /\ console[k].percent <=> console[k].insize > 0

\* C9's case: a file measured at 0 bytes was converted all the same (it was
\* written between the measurement and the conversion), and the run ended
\* with a total input size of 0.
C9_Witness ==
  /\ pc = "done"
  /\ \E k \in Kinds("converted") : console[k].insize = 0
  /\ \E k \in Kinds("summary") : console[k].insize = 0 /\ ~console[k].percent

\* C10: a second run on the same input folder leaves the output folder as
\* the first run left it, and create_folders() called with both folders
\* there raises nothing and changes nothing.
C10_Idempotent ==
  /\ run >= 2 /\ pc = "done" => outputDir = firstOutput
  /\ run >= 2 => pc # "crashed"
  /\ {"in", "out"} \subseteq fsBefore.folders =>
       /\ pc # "crashed"
       /\ pc = "discover" =>
            /\ folders = fsBefore.folders
            /\ inputDir = fsBefore.input
            /\ outputDir = fsBefore.output

\* C10's case: a second run that converted something has ended.
C10_Witness ==
  /\ run = 2
  /\ pc = "done"
  /\ success_count >= 1
  /\ outputDir # EmptyDir

====
